---- MODULE Spec2Model ----
(***************************************************************************)
(* Model of app.py: the Streamlit dashboard for toddler nutritional status. *)
(*                                                                         *)
(* Five parts of the script are modelled, each with its own specification  *)
(* over the shared variables:                                              *)
(*   SpecTrend    interpret_trend and its band function cat                *)
(*   SpecPosyandu the Posyandu column computed in tab1 with map_posyandu   *)
(*   SpecClean    clean_and_prepare_df                                     *)
(*   SpecMonthly  last_measurement_per_month                               *)
(*   SpecSession  the manual prediction form (tab2) and the history (tab3) *)
(*                                                                         *)
(* Z-scores are floats in the program.  They are modelled as integers in   *)
(* units of 1/Scale, so that every threshold of the band table (-3, -2,    *)
(* -1, 2, 3) and the points between them are exact.  A missing value       *)
(* (NaN, NaT) is a tagged record, never a number.                          *)
(***************************************************************************)
EXTENDS Integers, Sequences, FiniteSets, TLC

VARIABLES
    z_series,   \* interpret_trend: the argument, a sequence of scores
    mapped,     \* interpret_trend: z_series.map(cat), before dropna
    verdict,    \* interpret_trend: the returned text ("unset" before the call)
    rowRT,      \* tab1: row['RT'] of the row being mapped
    rowRW,      \* tab1: row['RW'] of the row being mapped
    Posyandu,   \* tab1: df['Posyandu'] of that row ("unset" before it is set)
    df_raw,     \* clean_and_prepare_df: the table read from the upload
    df_clean,   \* clean_and_prepare_df: the returned table
    df_month,   \* last_measurement_per_month: the argument, a cleaned table
    df_last,    \* last_measurement_per_month: the returned table
    model_file, \* what is at MODEL_FILE on disk
    model,      \* the classifier of the loaded bundle, "None" without one
    form,       \* tab2: the values of the widgets of the form
    submitted,  \* tab2: the last run submitted the form as it stands
    message,    \* tab2: the message the last submission showed
    predict_called, \* tab2: model.predict and predict_proba ran in the last submission
    X_input,    \* tab2: the feature row built by the last submission
    riwayat,    \* riwayat_prediksi.csv: whether it exists, and its rows
    predictions_since_wipe \* successful manual predictions since the last wipe

trendVars == <<z_series, mapped, verdict>>

posVars == <<rowRT, rowRW, Posyandu>>

cleanVars == <<df_raw, df_clean>>

monthVars == <<df_month, df_last>>

sessVars ==
    <<model_file, model, form, submitted, message, predict_called, X_input,
      riwayat, predictions_since_wipe>>

vars == <<trendVars, posVars, cleanVars, monthVars, sessVars>>

----------------------------------------------------------------------------
(* Values *)

Scale == 2

NaN == [isna |-> TRUE, v |-> 0]

Num(x) == [isna |-> FALSE, v |-> x]

isna(z) == z.isna

\* a text is a sequence of one-character strings
DigitChars == <<"0", "1", "2", "3", "4", "5", "6", "7", "8", "9">>

RECURSIVE Digits(_)
\* the decimal digits of a natural number
Digits(n) == IF n < 10 THEN <<DigitChars[n + 1]>> ELSE Digits(n \div 10) \o <<DigitChars[(n % 10) + 1]>>


IsDigit(c) == \E i \in 1..10 : DigitChars[i] = c

DigitVal(c) == (CHOOSE i \in 1..10 : DigitChars[i] = c) - 1

RECURSIVE NatOf(_)
\* the value of a non-empty text of digits
NatOf(t) == IF Len(t) = 0 THEN 0 ELSE 10 * NatOf(SubSeq(t, 1, Len(t) - 1)) + DigitVal(t[Len(t)])

AllDigits(t) == \A i \in 1..Len(t) : IsDigit(t[i])

\* str.replace(a, b) for one-character a and b: every occurrence
replace(t, a, b) == [i \in 1..Len(t) |-> IF t[i] = a THEN b ELSE t[i]]

RECURSIVE lstrip(_)
lstrip(t) == IF Len(t) > 0 /\ t[1] = " " THEN lstrip(Tail(t)) ELSE t

RECURSIVE rstrip(_)
rstrip(t) == IF Len(t) > 0 /\ t[Len(t)] = " " THEN rstrip(SubSeq(t, 1, Len(t) - 1)) ELSE t

\* str.strip()
strip(t) == rstrip(lstrip(t))

\* the position of the first "." of a text, 0 when there is none
PointAt(t) == IF \E i \in 1..Len(t) : t[i] = "."
              THEN CHOOSE i \in 1..Len(t) : t[i] = "." /\ \A j \in 1..(i - 1) : t[j] # "."
              ELSE 0

\* an unsigned decimal numeral: digits, digits.digits, digits. or .digits
DecimalSyntax(t) ==
    LET p == PointAt(t) IN
    IF p = 0 THEN Len(t) > 0 /\ AllDigits(t)
    ELSE /\ AllDigits(SubSeq(t, 1, p - 1))
         /\ AllDigits(SubSeq(t, p + 1, Len(t)))
         /\ Len(t) > 1

Unsigned(t) == IF Len(t) > 0 /\ t[1] \in {"+", "-"} THEN Tail(t) ELSE t

SpecialFloats == { <<"n", "a", "n">>, <<"i", "n", "f">> }

\* the texts float() and pd.to_numeric accept, over the characters of the
\* model (no exponent, no underscore): surrounding blanks, a sign, then a
\* decimal numeral or one of nan and inf
FloatSyntax(t) ==
    LET u == Unsigned(strip(t)) IN DecimalSyntax(u) \/ u \in SpecialFloats

\* the value of an accepted text, in tenths (texts of the model have at most
\* one digit after the point); nan is NaN
FloatValue(t) ==
    LET w == strip(t)
        u == Unsigned(w)
        p == PointAt(u)
        sign == IF Len(w) > 0 /\ w[1] = "-" THEN -1 ELSE 1
    IN  IF u \in SpecialFloats THEN NaN
        ELSE IF p = 0 THEN Num(sign * 10 * NatOf(u))
        ELSE Num(sign * (10 * NatOf(SubSeq(u, 1, p - 1))
                         + (IF p < Len(u) THEN DigitVal(u[p + 1]) ELSE 0)))

----------------------------------------------------------------------------
(* interpret_trend *)

MaxLen == 4

ZMin == -4 * Scale

ZMax == 4 * Scale

\* every score of the grid, and the missing score
Scores == {Num(x) : x \in ZMin..ZMax} \cup {NaN}

\* the scores the series are drawn from: each threshold, a point of each
\* band, and the missing score
TrendScores == {Num(x * Scale) : x \in {-4, -3, -2, -1, 0, 2, 3}} \cup {NaN}

MSG_EMPTY == "Tidak ada data untuk analisis."

MSG_INSUFFICIENT == "Data tidak mencukupi."

MSG_CONCERN == "Ada periode dengan status Gizi Buruk - perlu perhatian!"

MSG_STABLE == "Gizi baik dan stabil sepanjang waktu."

MSG_FLUCT == "Fluktuatif - perlu pemantauan berkala."

MSG_TREND == "Cenderung berubah - disarankan pemantauan rutin."

SixCategories ==
    {"Sangat Buruk", "Gizi Buruk", "Gizi Kurang", "Gizi Baik",
     "Risiko Gizi Lebih", "Gizi Lebih / Obesitas"}

\* -1 < z < 2 in place of -1 <= z < 2: the score -1 falls off the end
cat_gapAtMinusOne(z) ==
    IF isna(z) THEN "NaN"
    ELSE IF z.v < -3 * Scale THEN "Sangat Buruk"
    ELSE IF -3 * Scale <= z.v /\ z.v < -2 * Scale THEN "Gizi Buruk"
    ELSE IF -2 * Scale <= z.v /\ z.v < -1 * Scale THEN "Gizi Kurang"
    ELSE IF -1 * Scale < z.v /\ z.v < 2 * Scale THEN "Gizi Baik"
    ELSE IF 2 * Scale <= z.v /\ z.v < 3 * Scale THEN "Risiko Gizi Lebih"
    ELSE IF z.v >= 3 * Scale THEN "Gizi Lebih / Obesitas"
    ELSE "None"

\* cat(z): the chain of ifs; "NaN" is np.nan, "None" is falling off the end
cat(z) ==
    IF isna(z) THEN "NaN"
    ELSE IF z.v < -3 * Scale THEN "Sangat Buruk"
    ELSE IF -3 * Scale <= z.v /\ z.v < -2 * Scale THEN "Gizi Buruk"
    ELSE IF -2 * Scale <= z.v /\ z.v < -1 * Scale THEN "Gizi Kurang"
    ELSE IF -1 * Scale <= z.v /\ z.v < 2 * Scale THEN "Gizi Baik"
    ELSE IF 2 * Scale <= z.v /\ z.v < 3 * Scale THEN "Risiko Gizi Lebih"
    ELSE IF z.v >= 3 * Scale THEN "Gizi Lebih / Obesitas"
    ELSE "None"

\* z_series.map(cat), before dropna
MapCat(s) == [i \in 1..Len(s) |-> cat(s[i])]

\* dropna(): np.nan and None are both dropped, the order is kept
dropna(s) == SelectSeq(s, LAMBDA c : c \notin {"NaN", "None"})

\* sum(1 for i in range(1, len(cats)) if cats[i] != cats[i-1])
CountChanges(cats) == Cardinality({i \in 2..Len(cats) : cats[i] # cats[i-1]})

\* cats.count(x)
count(cats, x) == Cardinality({i \in 1..Len(cats) : cats[i] = x})

\* > 0.75 in place of >= 0.75
StableFraction_strict(cats) == 4 * count(cats, "Gizi Baik") > 3 * Len(cats)

\* cats.count("Gizi Baik") / len(cats) >= 0.75, in exact arithmetic
StableFraction(cats) == 4 * count(cats, "Gizi Baik") >= 3 * Len(cats)

\* the emptiness test of line 76 left out
interpret_trend_noEmptyTest(s) ==
    LET cats == dropna(MapCat(s)) IN
    IF Len(cats) = 0 THEN MSG_INSUFFICIENT
    ELSE IF \E i \in 1..Len(cats) : cats[i] \in {"Sangat Buruk", "Gizi Buruk"}
         THEN MSG_CONCERN
    ELSE LET changes == CountChanges(cats) IN
         IF StableFraction(cats) /\ changes <= 1 THEN MSG_STABLE
         ELSE IF changes >= 3 THEN MSG_FLUCT
         ELSE MSG_TREND

\* the stability test moved before the escalation test
interpret_trend_stableFirst(s) ==
    IF Len(s) = 0 THEN MSG_EMPTY
    ELSE LET cats == dropna(MapCat(s)) IN
         IF Len(cats) = 0 THEN MSG_INSUFFICIENT
         ELSE LET changes == CountChanges(cats) IN
              IF StableFraction(cats) /\ changes <= 1 THEN MSG_STABLE
              ELSE IF \E i \in 1..Len(cats) : cats[i] \in {"Sangat Buruk", "Gizi Buruk"}
                   THEN MSG_CONCERN
              ELSE IF changes >= 3 THEN MSG_FLUCT
              ELSE MSG_TREND

interpret_trend(s) ==
    IF Len(s) = 0 THEN MSG_EMPTY
    ELSE LET cats == dropna(MapCat(s)) IN
         IF Len(cats) = 0 THEN MSG_INSUFFICIENT
         ELSE IF \E i \in 1..Len(cats) : cats[i] \in {"Sangat Buruk", "Gizi Buruk"}
              THEN MSG_CONCERN
         ELSE LET changes == CountChanges(cats) IN
              IF StableFraction(cats) /\ changes <= 1 THEN MSG_STABLE
              ELSE IF changes >= 3 THEN MSG_FLUCT
              ELSE MSG_TREND

SeqsUpTo(S, n) == UNION {[1..k -> S] : k \in 0..n}

\* the series handed to interpret_trend: any series over TrendScores, and
\* every single score of the grid
TrendInputs == SeqsUpTo(TrendScores, MaxLen) \cup [1..1 -> Scores]

\* st.info(interpret_trend(series))
InterpretTrend ==
    /\ verdict = "unset"
    /\ mapped' = MapCat(z_series)
    /\ verdict' = interpret_trend(z_series)
    /\ UNCHANGED <<z_series, posVars, cleanVars, monthVars, sessVars>>

----------------------------------------------------------------------------
(* tab1: the Posyandu column *)

MaxZone == 10

\* the values a cell of the RT or RW column holds after pd.read_excel: an
\* integer, a float (an integer column with an empty cell is read as float64),
\* a text, or NaN for an empty cell; "absent" stands for a table without the
\* column
IntCell(n) == [kind |-> "int", n |-> n, s |-> <<>>]

FloatCell(n) == [kind |-> "float", n |-> n, s |-> <<>>]

TextCell(t) == [kind |-> "text", n |-> 0, s |-> t]

NanCell == [kind |-> "nan", n |-> 0, s |-> <<>>]

AbsentCell == [kind |-> "absent", n |-> 0, s |-> <<>>]

OddTexts == { <<>>, <<"a", "b">>, <<"+", "1">>, <<" ", "1">>, <<"0", "0", "2">>, <<"-">> }

ZoneCells ==
    {IntCell(n) : n \in -1..MaxZone}
        \cup {FloatCell(n) : n \in 0..MaxZone}
        \cup {TextCell(Digits(n)) : n \in 0..MaxZone}
        \cup {TextCell(<<"0">> \o Digits(n)) : n \in 0..MaxZone}
        \cup {TextCell(t) : t \in OddTexts}
        \cup {NanCell}

\* str(x) of a cell value
str(c) ==
    CASE c.kind = "int"   -> IF c.n < 0 THEN <<"-">> \o Digits(-c.n) ELSE Digits(c.n)
      [] c.kind = "float" -> Digits(c.n) \o <<".", "0">>
      [] c.kind = "text"  -> c.s
      [] c.kind = "nan"   -> <<"n", "a", "n">>

RECURSIVE Zeros(_)
Zeros(k) == IF k <= 0 THEN <<>> ELSE <<"0">> \o Zeros(k - 1)

\* no padding at all
zfill_noPad(t, width) == t

\* str.zfill(width): zeros on the left, after a leading sign
zfill(t, width) ==
    IF Len(t) >= width THEN t
    ELSE IF Len(t) > 0 /\ t[1] \in {"+", "-"}
         THEN <<t[1]>> \o Zeros(width - Len(t)) \o Tail(t)
    ELSE Zeros(width - Len(t)) \o t

T01 == <<"0", "1">>

T02 == <<"0", "2">>

T03 == <<"0", "3">>

T04 == <<"0", "4">>

T05 == <<"0", "5">>

T06 == <<"0", "6">>

T07 == <<"0", "7">>

map_posyandu(rt0, rw0) ==
    LET rt == zfill(str(rt0), 2)
        rw == zfill(str(rw0), 2)
    IN  IF rw = T06 /\ rt \in {T01, T02, T03} THEN "Larasati 1"
        ELSE IF rw \in {T04, T05} /\ rt \in {T01, T02} THEN "Larasati 2"
        ELSE IF rw \in {T02, T03} /\ rt \in {T01, T02, T03} THEN "Larasati 3"
        ELSE IF rw = T01 /\ rt \in {T01, T02, T03} THEN "Larasati 4"
        ELSE IF rw = T07 /\ rt \in {T01, T02, T03} THEN "Larasati 5"
        ELSE "Lainnya"

\* lines 137-140: the column is computed row by row when both columns exist,
\* and is the constant "Tidak diketahui" otherwise
SetPosyandu ==
    /\ Posyandu = "unset"
    /\ Posyandu' = IF rowRT.kind # "absent" /\ rowRW.kind # "absent"
                    THEN map_posyandu(rowRT, rowRW)
                    ELSE "Tidak diketahui"
    /\ UNCHANGED <<rowRT, rowRW, trendVars, cleanVars, monthVars, sessVars>>

----------------------------------------------------------------------------
(* clean_and_prepare_df *)

MaxRows == 2

NAMA_ANAK == <<"N", "a", "m", "a", " ", "A", "n", "a", "k">>

\* the header of the name column as uploaded: exact, padded with blanks, or
\* another header altogether
NameHeaders == { NAMA_ANAK, <<" ">> \o NAMA_ANAK \o <<" ">>, <<"N", "a", "m", "a">> }

\* the name cells of an uploaded row: an empty cell is NaN
NameCells ==
    { NanCell, TextCell(<<"A">>), TextCell(<<" ", "A", " ">>), TextCell(<<"B">>),
      TextCell(<<" ">>), TextCell(<<>>) }

\* the BB cells of an uploaded row
BBCells ==
    { NanCell, IntCell(2), TextCell(<<"1", ",", "5">>), TextCell(<<"1", ".", "5">>),
      TextCell(<<"x">>) }

RawRows == [nama : NameCells, bb : BBCells]

RawTables == [header : NameHeaders, rows : SeqsUpTo(RawRows, MaxRows)]

\* pd.to_numeric(text, errors="coerce")
to_numeric(t) == IF FloatSyntax(t) THEN FloatValue(t) ELSE NaN

\* lines 57-58 on one cell of a numeric column
CleanNumber(c) == to_numeric(replace(str(c), ",", "."))

\* line 60 on one cell of the name column
CleanName(c) == TextCell(strip(str(c)))

\* the table with the rows of missing or empty names and the repeated rows
\* taken out
clean_and_prepare_df_dropping(df) ==
    LET hdr == strip(df.header)
        all == [i \in 1..Len(df.rows) |->
                   [nama |-> IF hdr = NAMA_ANAK THEN CleanName(df.rows[i].nama)
                                                ELSE df.rows[i].nama,
                    bb |-> CleanNumber(df.rows[i].bb)]]
        keep == {i \in 1..Len(all) :
                    /\ df.rows[i].nama # NanCell
                    /\ all[i].nama.s # <<>>
                    /\ \A j \in 1..(i - 1) : all[j] # all[i]}
        F[i \in 0..Len(all)] ==
            IF i = 0 THEN <<>>
            ELSE IF i \in keep THEN Append(F[i - 1], all[i]) ELSE F[i - 1]
    IN  [header |-> hdr, rows |-> F[Len(all)]]

\* lines 49-61 for a table with a name column and the numeric column BB
clean_and_prepare_df(df) ==
    LET hdr == strip(df.header) IN
    [header |-> hdr,
     rows |-> [i \in 1..Len(df.rows) |->
                  [nama |-> IF hdr = NAMA_ANAK THEN CleanName(df.rows[i].nama)
                                               ELSE df.rows[i].nama,
                   bb |-> CleanNumber(df.rows[i].bb)]]]

NoTable == [header |-> <<>>, rows |-> <<>>]

\* line 118: df = clean_and_prepare_df(df)
CleanAndPrepare ==
    /\ df_raw # NoTable
    /\ df_clean = NoTable
    /\ df_clean' = clean_and_prepare_df(df_raw)
    /\ UNCHANGED <<df_raw, trendVars, posVars, monthVars, sessVars>>

----------------------------------------------------------------------------
(* last_measurement_per_month *)

MaxMeasurements == 3

\* a timestamp is a month and a day of the month; NaT is the missing one
NaT == [isna |-> TRUE, m |-> 0, d |-> 0]

Date(m, d) == [isna |-> FALSE, m |-> m, d |-> d]

Months == {1, 2}

Days == {1, 15, 28}

\* the child names of the cleaned table, in the order sort_values gives them
ChildNames == << <<"A">>, <<"B">> >>

NameRank(n) == CHOOSE i \in 1..Len(ChildNames) : ChildNames[i] = n

\* BB in tenths of a kilogram
BBValues == {NaN, Num(100)}

MonthRows ==
    [nama : {ChildNames[i] : i \in 1..Len(ChildNames)},
     tanggal : {Date(m, d) : m \in Months, d \in Days} \cup {NaT},
     bb : BBValues]

\* a before b in the order of sort_values(["Nama Anak", "Tanggal Pengukuran"]):
\* by name, then by timestamp with NaT last
SortsBefore(a, b) ==
    \/ NameRank(a.nama) < NameRank(b.nama)
    \/ /\ a.nama = b.nama
       /\ ~a.tanggal.isna
       /\ \/ b.tanggal.isna
          \/ a.tanggal.m < b.tanggal.m
          \/ a.tanggal.m = b.tanggal.m /\ a.tanggal.d < b.tanggal.d

\* x put after every row that does not sort after it
InsertSorted(t, x) ==
    LET k == Cardinality({i \in 1..Len(t) : ~SortsBefore(x, t[i])})
    IN  SubSeq(t, 1, k) \o <<x>> \o SubSeq(t, k + 1, Len(t))

RECURSIVE sort_values(_)
\* the stable sort of the rows (a sort on two columns is a lexsort)
sort_values(t) ==
    IF Len(t) = 0 THEN <<>>
    ELSE InsertSorted(sort_values(SubSeq(t, 1, Len(t) - 1)), t[Len(t)])

\* dt.to_period("M")
to_period(ts) == IF ts.isna THEN NaT ELSE Date(ts.m, 0)

\* Period.to_timestamp(): the first day of the month
to_timestamp(per) == Date(per.m, 1)

\* GroupBy.last() on one column of a group: the last value that is not missing,
\* a missing value when the group has none
LastNonNull(column) ==
    IF \E i \in 1..Len(column) : ~column[i].isna
    THEN column[CHOOSE i \in 1..Len(column) :
                    /\ ~column[i].isna
                    /\ \A j \in (i + 1)..Len(column) : column[j].isna]
    ELSE NaN

\* the keys (name rank, month) of the groups, rows without a period left out
GroupKeys(t) ==
    {<<NameRank(t[i].nama), t[i].tanggal.m>> : i \in {j \in 1..Len(t) : ~t[j].tanggal.isna}}

RECURSIVE KeysInOrder(_)
\* the keys in ascending order, as groupby sorts them
KeysInOrder(K) ==
    IF K = {} THEN <<>>
    ELSE LET k == CHOOSE x \in K : \A y \in K :
                      x[1] < y[1] \/ (x[1] = y[1] /\ x[2] <= y[2])
         IN  <<k>> \o KeysInOrder(K \ {k})

\* lines 63-72
last_measurement_per_month(df) ==
    LET sorted == sort_values(df)
        keys == KeysInOrder(GroupKeys(sorted))
        group(k) == SelectSeq(sorted, LAMBDA r :
                        ~r.tanggal.isna /\ NameRank(r.nama) = k[1] /\ r.tanggal.m = k[2])
    IN  [i \in 1..Len(keys) |->
            LET g == group(keys[i]) IN
            [nama |-> ChildNames[keys[i][1]],
             Periode |-> Date(keys[i][2], 0),
             tanggal |-> LastNonNull([j \in 1..Len(g) |-> g[j].tanggal]),
             bb |-> LastNonNull([j \in 1..Len(g) |-> g[j].bb]),
             Periode_MonthStart |-> to_timestamp(Date(keys[i][2], 0))]]

NotReduced == [done |-> FALSE, rows |-> <<>>]

\* lines 171 and 204: df_last = last_measurement_per_month(df)
LastMeasurementPerMonth ==
    /\ ~df_last.done
    /\ df_last' = [done |-> TRUE, rows |-> last_measurement_per_month(df_month)]
    /\ UNCHANGED <<df_month, trendVars, posVars, cleanVars, sessVars>>

----------------------------------------------------------------------------
(* The session: loading the model, tab2 (manual prediction), tab3 (history) *)

MaxHistory == 1

MaxPredictions == 2

\* what os.path.exists and joblib.load find at MODEL_FILE: no file, a file
\* that fails to load, a bundle without a "model" entry, a bundle with one
ModelFiles == {"absent", "unreadable", "no model entry", "bundle"}

\* lines 32-44
LoadModel(f) == IF f = "bundle" THEN "RandomForest" ELSE "None"

\* the texts typed into the three z-score fields
ZTexts ==
    { <<"0">>, <<"1", ",", "5">>, <<"-", "2", ".", "5">>, <<"1", ",", "2", ",", "3">>,
      <<"a", "b">>, <<"n", "a", "n">>, <<" ", "1">>, <<>> }

STATUS_BBU == <<"Sangat Kurang", "Kurang", "Normal", "Risiko Gizi Lebih">>

STATUS_TBU == <<"Sangat Pendek", "Pendek", "Normal", "Tinggi">>

\* map_bbu and map_tbu: an option is encoded by its position, from 0
Encode(options, x) == (CHOOSE i \in 1..Len(options) : options[i] = x) - 1

MSG_ZSCORE == "Pastikan Z-score diisi dengan angka."

MSG_PREDIKSI == "Prediksi"

MSG_NO_MODEL == "Model belum dimuat - prediksi otomatis tidak tersedia."

\* lines 233-237: the widgets as the form first shows them
DefaultForm ==
    [z_bbtb |-> <<"0">>, z_bbu |-> <<"0">>, z_tbu |-> <<"0">>,
     status_bbu |-> STATUS_BBU[1], status_tbu |-> STATUS_TBU[1]]

NoInput == [built |-> FALSE, z |-> <<>>, bbu |-> 0, tbu |-> 0]

\* the decimal comma is not rewritten before the conversion
FloatRaises_commaKept(t) == ~FloatSyntax(t)

\* float(str(x).replace(",", ".")) raises
FloatRaises(t) == ~FloatSyntax(replace(t, ",", "."))

\* line 242: the map over the three texts raises
ConversionRaises(f) == FloatRaises(f.z_bbtb) \/ FloatRaises(f.z_bbu) \/ FloatRaises(f.z_tbu)

\* lines 250-256
BuildInput(f) ==
    [built |-> TRUE,
     z |-> << FloatValue(replace(f.z_bbtb, ",", ".")),
              FloatValue(replace(f.z_bbu, ",", ".")),
              FloatValue(replace(f.z_tbu, ",", ".")) >>,
     bbu |-> Encode(STATUS_BBU, f.status_bbu),
     tbu |-> Encode(STATUS_TBU, f.status_tbu)]

\* lines 231-237: the user changes a widget of the form.  Widgets of a form
\* start no run of the script; what the last run showed is not about the form
\* as it now stands, and is forgotten here.
EditForm(f) ==
    /\ f # form
    /\ form' = f
    /\ submitted' = FALSE
    /\ message' = ""
    /\ predict_called' = FALSE
    /\ X_input' = NoInput
    /\ UNCHANGED <<model_file, model, riwayat, predictions_since_wipe>>
    /\ UNCHANGED <<trendVars, posVars, cleanVars, monthVars>>

TypeZ_bbtb == \E t \in ZTexts : EditForm([form EXCEPT !.z_bbtb = t])

TypeZ_bbu == \E t \in ZTexts : EditForm([form EXCEPT !.z_bbu = t])

TypeZ_tbu == \E t \in ZTexts : EditForm([form EXCEPT !.z_tbu = t])

SelectStatus_bbu == \E i \in 1..Len(STATUS_BBU) : EditForm([form EXCEPT !.status_bbu = STATUS_BBU[i]])

SelectStatus_tbu == \E i \in 1..Len(STATUS_TBU) : EditForm([form EXCEPT !.status_tbu = STATUS_TBU[i]])

\* lines 240-264: one run of the script with the form submitted.  A text that
\* is not a number ends the run at st.stop(); otherwise the feature row is
\* built and handed to the classifier when there is one.  Nothing in the run
\* writes riwayat_prediksi.csv.
SubmitPrediction ==
    LET m == LoadModel(model_file) IN
    /\ model' = m
    /\ submitted' = TRUE
    /\ IF ConversionRaises(form)
       THEN /\ message' = MSG_ZSCORE
            /\ predict_called' = FALSE
            /\ X_input' = NoInput
            /\ UNCHANGED predictions_since_wipe
       ELSE /\ X_input' = BuildInput(form)
            /\ IF m # "None"
               THEN /\ predictions_since_wipe < MaxPredictions
                    /\ predict_called' = TRUE
                    /\ message' = MSG_PREDIKSI
                    /\ predictions_since_wipe' = predictions_since_wipe + 1
               ELSE /\ predict_called' = FALSE
                    /\ message' = MSG_NO_MODEL
                    /\ UNCHANGED predictions_since_wipe
    /\ UNCHANGED <<model_file, form, riwayat>>
    /\ UNCHANGED <<trendVars, posVars, cleanVars, monthVars>>

\* lines 269-276: one run of the script with the button Hapus Riwayat
\* pressed; the button is only there when the file exists
WipeHistory ==
    /\ riwayat.exists
    /\ riwayat' = [exists |-> FALSE, rows |-> 0]
    /\ predictions_since_wipe' = 0
    /\ model' = LoadModel(model_file)
    /\ submitted' = FALSE
    /\ message' = "Riwayat dihapus."
    /\ predict_called' = FALSE
    /\ X_input' = NoInput
    /\ UNCHANGED <<model_file, form>>
    /\ UNCHANGED <<trendVars, posVars, cleanVars, monthVars>>

----------------------------------------------------------------------------
(* Specifications: each draws the inputs of one part of the script and      *)
(* leaves the other parts in their idle state                              *)

TrendIdle == z_series = <<>> /\ mapped = <<>> /\ verdict = "unset"

PosIdle == rowRT = AbsentCell /\ rowRW = AbsentCell /\ Posyandu = "unset"

CleanIdle == df_raw = NoTable /\ df_clean = NoTable

MonthIdle == df_month = <<>> /\ df_last = NotReduced

SessIdle ==
    /\ model_file = "absent"
    /\ model = "None"
    /\ form = DefaultForm
    /\ submitted = FALSE
    /\ message = ""
    /\ predict_called = FALSE
    /\ X_input = NoInput
    /\ riwayat = [exists |-> FALSE, rows |-> 0]
    /\ predictions_since_wipe = 0

InitTrend ==
    /\ PosIdle
    /\ SessIdle
    /\ MonthIdle
    /\ CleanIdle
    /\ z_series \in TrendInputs
    /\ mapped = <<>>
    /\ verdict = "unset"

NextTrend == InterpretTrend

SpecTrend == InitTrend /\ [][NextTrend]_vars

InitPosyandu ==
    /\ TrendIdle
    /\ SessIdle
    /\ MonthIdle
    /\ CleanIdle
    /\ rowRT \in ZoneCells \cup {AbsentCell}
    /\ rowRW \in ZoneCells \cup {AbsentCell}
    /\ Posyandu = "unset"

NextPosyandu == SetPosyandu

SpecPosyandu == InitPosyandu /\ [][NextPosyandu]_vars

InitClean ==
    /\ TrendIdle
    /\ SessIdle
    /\ MonthIdle
    /\ PosIdle
    /\ df_raw \in RawTables
    /\ df_clean = NoTable

NextClean == CleanAndPrepare

SpecClean == InitClean /\ [][NextClean]_vars

InitMonthly ==
    /\ TrendIdle
    /\ SessIdle
    /\ PosIdle
    /\ CleanIdle
    /\ df_month \in SeqsUpTo(MonthRows, MaxMeasurements)
    /\ df_last = NotReduced

NextMonthly == LastMeasurementPerMonth

SpecMonthly == InitMonthly /\ [][NextMonthly]_vars

\* the first run of the script: the model file is whatever is on disk, and the
\* history file is absent or left by earlier sessions, one row per prediction
InitSession ==
    /\ TrendIdle
    /\ PosIdle
    /\ CleanIdle
    /\ MonthIdle
    /\ model_file \in ModelFiles
    /\ model = LoadModel(model_file)
    /\ form = DefaultForm
    /\ submitted = FALSE
    /\ message = ""
    /\ predict_called = FALSE
    /\ X_input = NoInput
    /\ \E n \in 0..MaxHistory :
           \/ riwayat = [exists |-> FALSE, rows |-> 0] /\ predictions_since_wipe = 0 /\ n = 0
           \/ riwayat = [exists |-> TRUE, rows |-> n] /\ predictions_since_wipe = n

NextSession ==
    \/ TypeZ_bbtb
    \/ TypeZ_bbu
    \/ TypeZ_tbu
    \/ SelectStatus_bbu
    \/ SelectStatus_tbu
    \/ SubmitPrediction
    \/ WipeHistory

SpecSession == InitSession /\ [][NextSession]_vars

----------------------------------------------------------------------------
(* Properties of interpret_trend *)

\* the band table of the specification: [lo, hi) with an open end marked
BandTable ==
    { [name |-> "Sangat Buruk",          haslo |-> FALSE, lo |-> 0,  hashi |-> TRUE,  hi |-> -3],
      [name |-> "Gizi Buruk",            haslo |-> TRUE,  lo |-> -3, hashi |-> TRUE,  hi |-> -2],
      [name |-> "Gizi Kurang",           haslo |-> TRUE,  lo |-> -2, hashi |-> TRUE,  hi |-> -1],
      [name |-> "Gizi Baik",             haslo |-> TRUE,  lo |-> -1, hashi |-> TRUE,  hi |-> 2],
      [name |-> "Risiko Gizi Lebih",     haslo |-> TRUE,  lo |-> 2,  hashi |-> TRUE,  hi |-> 3],
      [name |-> "Gizi Lebih / Obesitas", haslo |-> TRUE,  lo |-> 3,  hashi |-> FALSE, hi |-> 0] }

InBand(z, b) ==
    /\ ~isna(z)
    /\ b.haslo => b.lo * Scale <= z.v
    /\ b.hashi => z.v < b.hi * Scale

BandsOf(z) == {b.name : b \in {c \in BandTable : InBand(z, c)}}

BandOf(z) == CHOOSE n \in BandsOf(z) : TRUE

Present(s) == SelectSeq(s, LAMBDA z : ~isna(z))

Interpreted == verdict # "unset"

HasSevereOrPoor(s) == \E i \in 1..Len(s) : BandsOf(s[i]) \cap {"Sangat Buruk", "Gizi Buruk"} # {}

\* C1: whenever a non-missing score of the series is Severe (z < -3) or Poor
\* (-3 <= z < -2), the verdict is the 'concerning period' verdict, whatever
\* the position of the score, the share of Normal entries and the number of
\* category changes.
C1_EscalationWins ==
    (Interpreted /\ HasSevereOrPoor(z_series)) => verdict = MSG_CONCERN

\* a Poor entry between two Normal entries has been interpreted
C1_Witness ==
    /\ Interpreted
    /\ Len(z_series) = 3
    /\ BandsOf(z_series[1]) = {"Gizi Baik"}
    /\ BandsOf(z_series[2]) = {"Gizi Buruk"}
    /\ BandsOf(z_series[3]) = {"Gizi Baik"}
    /\ verdict = MSG_CONCERN

NormalCount(p) == Cardinality({i \in 1..Len(p) : BandsOf(p[i]) = {"Gizi Baik"}})

BandChanges(p) == Cardinality({i \in 1..(Len(p) - 1) : BandOf(p[i]) # BandOf(p[i + 1])})

\* C2: for a series with at least one non-missing score and no Severe or Poor
\* score, the verdict is 'stable' exactly when at least 75 percent of the
\* non-missing entries are Normal and there is at most one category change;
\* otherwise 'fluctuating' exactly when there are three or more changes;
\* otherwise 'trending'.
C2_StableFluctTrend ==
    LET p == Present(z_series) IN
    (Interpreted /\ Len(p) > 0 /\ ~HasSevereOrPoor(z_series)) =>
        LET stable == 100 * NormalCount(p) >= 75 * Len(p) /\ BandChanges(p) <= 1 IN
        /\ (verdict = MSG_STABLE) <=> stable
        /\ (verdict = MSG_FLUCT) <=> (~stable /\ BandChanges(p) >= 3)
        /\ (verdict = MSG_TREND) <=> (~stable /\ BandChanges(p) < 3)

\* Normal, At-risk-high, Normal, At-risk-high has been interpreted as fluctuating
C2_Witness ==
    /\ Interpreted
    /\ Len(z_series) = 4
    /\ \A i \in {1, 3} : BandsOf(z_series[i]) = {"Gizi Baik"}
    /\ \A i \in {2, 4} : BandsOf(z_series[i]) = {"Risiko Gizi Lebih"}
    /\ verdict = MSG_FLUCT

\* C3 as stated: whenever nothing is left after dropping the missing scores,
\* the verdict is the 'insufficient data' verdict, for a series with no entry
\* as for a series of missing scores only.
C3_Original ==
    (Interpreted /\ Len(Present(z_series)) = 0) => verdict = MSG_INSUFFICIENT

\* C3 as amended: a series of one or more missing scores only gives the
\* 'insufficient data' verdict; a series with no entry at all gives the
\* different 'no data for analysis' verdict.
C3_EmptyVersusAllMissing ==
    (Interpreted /\ Len(Present(z_series)) = 0) =>
        /\ Len(z_series) > 0 => verdict = MSG_INSUFFICIENT
        /\ Len(z_series) = 0 => verdict = MSG_EMPTY
        /\ MSG_EMPTY # MSG_INSUFFICIENT

\* a series of two missing scores has been interpreted
C3_Witness ==
    /\ Interpreted
    /\ Len(z_series) = 2
    /\ \A i \in 1..2 : isna(z_series[i])
    /\ verdict = MSG_INSUFFICIENT

\* C4: every non-missing score lies in exactly one of the six ranges of the
\* band table, the thresholds -3, -2, -1, 2 and 3 included, and cat gives it
\* the category of that range, which is one of the six.
C4_BandsPartition ==
    Interpreted =>
        \A i \in 1..Len(z_series) :
            ~isna(z_series[i]) =>
                /\ Cardinality(BandsOf(z_series[i])) = 1
                /\ mapped[i] = BandOf(z_series[i])
                /\ mapped[i] \in SixCategories

\* the threshold score -1 has been mapped
C4_Witness ==
    /\ Interpreted
    /\ Len(z_series) = 1
    /\ z_series[1] = Num(-1 * Scale)
    /\ mapped[1] = "Gizi Baik"

----------------------------------------------------------------------------
(* Properties of the Posyandu column *)

PosyanduSet == Posyandu # "unset"

\* the identifier is there: the column exists and the cell is not empty
ZonePresent(c) == c.kind \notin {"absent", "nan"}

\* the zone number of an identifier written as the integer n, the text 'n' or
\* the two-character text '0n'; -1 for any other cell
ZoneNumber(c) ==
    IF c.kind = "int" /\ c.n >= 0 THEN c.n
    ELSE IF c.kind = "text" /\ \E n \in 0..MaxZone : c.s = Digits(n)
         THEN CHOOSE n \in 0..MaxZone : c.s = Digits(n)
    ELSE IF c.kind = "text" /\ \E n \in 0..9 : c.s = <<"0">> \o Digits(n)
         THEN CHOOSE n \in 0..9 : c.s = <<"0">> \o Digits(n)
    ELSE -1

\* the rule table of the specification, on zone numbers, in its order
ZoneRules ==
    << [rw |-> {6},    rt |-> {1, 2, 3}, name |-> "Larasati 1"],
       [rw |-> {4, 5}, rt |-> {1, 2},    name |-> "Larasati 2"],
       [rw |-> {2, 3}, rt |-> {1, 2, 3}, name |-> "Larasati 3"],
       [rw |-> {1},    rt |-> {1, 2, 3}, name |-> "Larasati 4"],
       [rw |-> {7},    rt |-> {1, 2, 3}, name |-> "Larasati 5"] >>

RuleMatches(i, rt, rw) == rw \in ZoneRules[i].rw /\ rt \in ZoneRules[i].rt

FirstMatch(rt, rw) ==
    IF \E i \in 1..Len(ZoneRules) : RuleMatches(i, rt, rw)
    THEN ZoneRules[CHOOSE i \in 1..Len(ZoneRules) :
                       /\ RuleMatches(i, rt, rw)
                       /\ \A j \in 1..(i - 1) : ~RuleMatches(j, rt, rw)].name
    ELSE "Lainnya"

C6_MissingIsUnknown ==
    PosyanduSet =>
        /\ (~ZonePresent(rowRT) \/ ~ZonePresent(rowRW)) => Posyandu = "Tidak diketahui"
        /\ Posyandu = "Lainnya" => (ZonePresent(rowRT) /\ ZonePresent(rowRW))

----------------------------------------------------------------------------
(* Properties of clean_and_prepare_df *)

Cleaned == df_clean # NoTable

HasNameColumn == df_clean.header = NAMA_ANAK

\* the name of an output row is missing or empty: NaN, the text 'nan' that a
\* NaN becomes, or the empty text
NameMissing(r) == r.nama = NanCell \/ r.nama.s \in { <<>>, <<"n", "a", "n">> }

\* C7 as stated: the cleaned table has no row whose child name is missing or
\* empty after trimming, and no two rows equal in all fields.
C7_Original ==
    (Cleaned /\ HasNameColumn) =>
        /\ \A i \in 1..Len(df_clean.rows) : ~NameMissing(df_clean.rows[i])
        /\ \A i, j \in 1..Len(df_clean.rows) :
               i # j => df_clean.rows[i] # df_clean.rows[j]

\* C7 as amended: the cleaned table has exactly one row per row of the input,
\* in the input's order, and its child name is the input's name as trimmed
\* text; no row is dropped, so rows with a missing name (the text 'nan') or
\* an empty name, and repeated rows, stay in the table.
C7_NoRowDropped ==
    (Cleaned /\ HasNameColumn) =>
        /\ Len(df_clean.rows) = Len(df_raw.rows)
        /\ \A i \in 1..Len(df_raw.rows) :
               LET c == df_raw.rows[i].nama
                   n == df_clean.rows[i].nama
               IN  /\ n.kind = "text"
                   /\ c.kind = "nan" => n.s = <<"n", "a", "n">>
                   /\ c.kind = "text" =>
                          /\ Len(n.s) = 0 \/ (n.s[1] # " " /\ n.s[Len(n.s)] # " ")
                          /\ \E a, b \in 0..Len(c.s) :
                                 /\ a + Len(n.s) + b = Len(c.s)
                                 /\ \A k \in 1..Len(c.s) :
                                        IF k <= a \/ k > a + Len(n.s)
                                        THEN c.s[k] = " "
                                        ELSE c.s[k] = n.s[k - a]

\* a table with a missing name and with two rows that become equal has been
\* cleaned, and all its rows are still there
C7_Witness ==
    /\ Cleaned
    /\ HasNameColumn
    /\ Len(df_raw.rows) = 2
    /\ df_raw.rows[1].nama = NanCell
    /\ df_raw.rows[2].nama = NanCell
    /\ Len(df_clean.rows) = 2
    /\ df_clean.rows[1] = df_clean.rows[2]

----------------------------------------------------------------------------
(* Properties of last_measurement_per_month *)

\* the rows of the input of one child and one month, by their position
GroupOf(n, m) ==
    {i \in 1..Len(df_month) :
        /\ df_month[i].nama = n
        /\ ~df_month[i].tanggal.isna
        /\ df_month[i].tanggal.m = m}

\* the row of a group with the greatest day, the later row of the input on
\* equal days
LatestOf(G) ==
    CHOOSE i \in G : \A j \in G :
        \/ df_month[j].tanggal.d < df_month[i].tanggal.d
        \/ df_month[j].tanggal.d = df_month[i].tanggal.d /\ j <= i

OutputFor(n, m) ==
    {k \in 1..Len(df_last.rows) :
        df_last.rows[k].nama = n /\ df_last.rows[k].Periode.m = m}

\* C8: the result has exactly one row for every child and month with a dated
\* row, and none for any other; that row is, field for field, the row of the
\* input with the greatest date of the group (the later one on equal dates),
\* also when that row has missing fields; rows without a date are in no row
\* of the result.
C8_LastRowPerMonth ==
    df_last.done =>
        /\ \A k \in 1..Len(df_last.rows) :
               GroupOf(df_last.rows[k].nama, df_last.rows[k].Periode.m) # {}
        /\ \A i \in 1..Len(df_month) :
               LET n == df_month[i].nama
                   m == df_month[i].tanggal.m
               IN  ~df_month[i].tanggal.isna =>
                       /\ Cardinality(OutputFor(n, m)) = 1
                       /\ \A k \in OutputFor(n, m) :
                              LET w == df_month[LatestOf(GroupOf(n, m))] IN
                              /\ df_last.rows[k].tanggal = w.tanggal
                              /\ df_last.rows[k].bb = w.bb
        /\ \A k \in 1..Len(df_last.rows) : ~df_last.rows[k].tanggal.isna

----------------------------------------------------------------------------
(* Properties of the session *)

HistoryRows == IF riwayat.exists THEN riwayat.rows ELSE 0

\* C9: the history holds exactly one row per successful manual prediction
\* made since the last wipe: a prediction adds a row, a wipe leaves none, a
\* prediction after a wipe gives a history of one row.
C9_HistoryCountsPredictions == HistoryRows = predictions_since_wipe

NumeralChars == {DigitChars[i] : i \in 1..10} \cup {".", "+", "-"}

\* a text is numeric when, a decimal comma taken as a period and the blanks
\* around it set aside, it is a sign at most, digits and one period at most,
\* with a digit at least, or one of the floats nan and inf with a sign at most
NumericText(t) ==
    LET lo == CHOOSE i \in 1..(Len(t) + 1) :
                  /\ \A j \in 1..(i - 1) : t[j] = " "
                  /\ i <= Len(t) => t[i] # " "
        hi == CHOOSE i \in 0..Len(t) :
                  /\ \A j \in (i + 1)..Len(t) : t[j] = " "
                  /\ i >= 1 => t[i] # " "
        c(i) == IF t[i] = "," THEN "." ELSE t[i]
        body == {i \in lo..hi : ~(i = lo /\ c(i) \in {"+", "-"})}
    IN  \/ /\ \A i \in lo..hi : c(i) \in NumeralChars
           /\ \A i \in body : c(i) \notin {"+", "-"}
           /\ Cardinality({i \in body : c(i) = "."}) <= 1
           /\ \E i \in body : IsDigit(c(i))
        \/ /\ Cardinality(body) = 3
           /\ \E b \in body :
                  <<t[b], t[b + 1], t[b + 2]>> \in { <<"n", "a", "n">>, <<"i", "n", "f">> }

AllNumeric == NumericText(form.z_bbtb) /\ NumericText(form.z_bbu) /\ NumericText(form.z_tbu)

====
